---- MODULE Spec2Model ----
(***************************************************************************)
(* A model of adlist.c, the generic doubly linked list of Redis.           *)
(*                                                                         *)
(* The heap is a pool of node cells and a pool of list headers.  Every C   *)
(* function is an operator that takes a heap h and returns the heap after  *)
(* the call together with the returned pointer; the statements of the      *)
(* function are the nested LETs of the operator, in source order.          *)
(* Pointers are cell numbers, NULL is 0.  Values are opaque references     *)
(* in Values.  A callback field holds TRUE when a function is installed     *)
(* and FALSE when it is NULL.                                              *)
(***************************************************************************)
EXTENDS Integers, Sequences, FiniteSets, TLC

\* ------------------------------------------------------------------ bounds
\* The node pool holds MaxNodes cells, and the callers insert a node only
\* while fewer than MaxLive are allocated (listDup allocates as long as the
\* pool lasts); a long has LongBits bits.
MaxNodes == 5
MaxLive == 3
LongBits == 4

NULL == 0
AL_START_HEAD == 0
AL_START_TAIL == 1

Nodes == 1..MaxNodes
Lists == {1, 2}
Iters == {1, 2}
\* Two value references, and the keys a search is given: the two values and
\* two references stored nowhere.
Values == {1, 2}
Keys == {0, 1, 2, 3}
NodePtr == Nodes \cup {NULL}

LongMin == -(2 ^ (LongBits - 1))
LongMax == (2 ^ (LongBits - 1)) - 1
Longs == LongMin..LongMax

VARIABLES node, list, iter, last, seated, yielded, kept

vars == <<node, list, iter, last, seated, yielded, kept>>
iterVars == <<iter, seated, yielded, kept>>

\* ------------------------------------------------------------ heap cells
\* struct listNode, and a cell of the node pool that is not allocated.
FreeNode == [live |-> FALSE, value |-> NULL, prev |-> NULL, next |-> NULL]

\* struct list, and a header cell that is not allocated.
FreeList == [live |-> FALSE, head |-> NULL, tail |-> NULL, len |-> 0,
             dup |-> FALSE, free |-> FALSE, match |-> FALSE]

\* struct listIter, and an iterator cell that is not allocated.
FreeIter == [live |-> FALSE, next |-> NULL, direction |-> AL_START_HEAD]

\* The record of the latest call: its name, the list, other list, node and
\* number it was given (k is the insertion side, the index, the iterator or
\* the length before the call), the allocation that failed in it, the
\* returned pointer and the values handed to the release callback, in order.
\* A call that failed to allocate records no argument but its list.
NoCall == [op |-> "init", l |-> 0, o |-> 0, n |-> 0, v |-> 0, k |-> 0,
           fail |-> "none", ret |-> 0, rel |-> <<>>, steps |-> 0,
           dupd |-> <<>>]

Min(S) == CHOOSE x \in S : \A y \in S : x <= y

FreeNodes(h) == {n \in Nodes : ~h.node[n].live}
FreeLists(h) == {l \in Lists : ~h.list[l].live}

\* The caller-supplied callbacks: a deep copy that yields another reference,
\* and an equality coarser than identity.
DupFn(v) == 3 - v
MatchFn(v, key) == (v % 2) = (key % 2)

\* zmalloc(sizeof(listNode)): NULL when the allocator is out of memory.
zmallocNode(h, fail) ==
    IF fail \/ FreeNodes(h) = {} THEN NULL ELSE Min(FreeNodes(h))

\* zmalloc(sizeof(list)).
zmallocList(h, fail) ==
    IF fail \/ FreeLists(h) = {} THEN NULL ELSE Min(FreeLists(h))

\* zfree(node).
zfreeNode(h, n) == [h EXCEPT !.node[n] = FreeNode]

\* zfree(list).
zfreeList(h, l) == [h EXCEPT !.list[l] = FreeList]

\* list->free(value): the release callback, recorded in call order.
callFree(h, v) == [h EXCEPT !.rel = Append(@, v)]
\* list->dup(v): the value it produced joins h.dupd, in call order.
callDup(h, v) == [h |-> [h EXCEPT !.dupd = Append(@, DupFn(v))],
                  ret |-> DupFn(v)]

\* --------------------------------------------------------------- adlist.c
listCreate(h, fail) ==
    LET l == zmallocList(h, fail) IN
    IF l = NULL THEN [h |-> h, ret |-> NULL]
    ELSE [h |-> [h EXCEPT !.list[l] = [FreeList EXCEPT !.live = TRUE]],
          ret |-> l]

\* listAddNodeHead counting the node before it has it.
listAddNodeHead_CountFirst(h, l, value, fail) ==
    LET nd == zmallocNode(h, fail) IN
    IF nd = NULL THEN [h |-> [h EXCEPT !.list[l].len = @ + 1], ret |-> NULL]
    ELSE
      LET h1 == [h EXCEPT !.node[nd].live = TRUE, !.node[nd].value = value]
          h2 == IF h1.list[l].len = 0
                THEN [h1 EXCEPT !.list[l].head = nd, !.list[l].tail = nd,
                                !.node[nd].prev = NULL, !.node[nd].next = NULL]
                ELSE LET a == [h1 EXCEPT !.node[nd].prev = NULL,
                                         !.node[nd].next = h1.list[l].head]
                         b == [a EXCEPT !.node[a.list[l].head].prev = nd]
                     IN [b EXCEPT !.list[l].head = nd]
      IN [h |-> [h2 EXCEPT !.list[l].len = @ + 1], ret |-> l]

listAddNodeHead(h, l, value, fail) ==
    LET nd == zmallocNode(h, fail) IN
    IF nd = NULL THEN [h |-> h, ret |-> NULL]
    ELSE
      LET h1 == [h EXCEPT !.node[nd].live = TRUE, !.node[nd].value = value]
          h2 == IF h1.list[l].len = 0
                THEN [h1 EXCEPT !.list[l].head = nd, !.list[l].tail = nd,
                                !.node[nd].prev = NULL, !.node[nd].next = NULL]
                ELSE LET a == [h1 EXCEPT !.node[nd].prev = NULL,
                                         !.node[nd].next = h1.list[l].head]
                         b == [a EXCEPT !.node[a.list[l].head].prev = nd]
                     IN [b EXCEPT !.list[l].head = nd]
      IN [h |-> [h2 EXCEPT !.list[l].len = @ + 1], ret |-> l]

listAddNodeTail(h, l, value, fail) ==
    LET nd == zmallocNode(h, fail) IN
    IF nd = NULL THEN [h |-> h, ret |-> NULL]
    ELSE
      LET h1 == [h EXCEPT !.node[nd].live = TRUE, !.node[nd].value = value]
          h2 == IF h1.list[l].len = 0
                THEN [h1 EXCEPT !.list[l].head = nd, !.list[l].tail = nd,
                                !.node[nd].prev = NULL, !.node[nd].next = NULL]
                ELSE LET a == [h1 EXCEPT !.node[nd].prev = h1.list[l].tail,
                                         !.node[nd].next = NULL]
                         b == [a EXCEPT !.node[a.list[l].tail].next = nd]
                     IN [b EXCEPT !.list[l].tail = nd]
      IN [h |-> [h2 EXCEPT !.list[l].len = @ + 1], ret |-> l]

\* listInsertNode that leaves list->tail where it was.
listInsertNode_NoTail(h, l, old_node, value, after, fail) ==
    LET nd == zmallocNode(h, fail) IN
    IF nd = NULL THEN [h |-> h, ret |-> NULL]
    ELSE
      LET h1 == [h EXCEPT !.node[nd].live = TRUE, !.node[nd].value = value]
          h2 == IF after
                THEN [h1 EXCEPT !.node[nd].prev = old_node,
                                !.node[nd].next = h1.node[old_node].next]
                ELSE LET a == [h1 EXCEPT !.node[nd].next = old_node,
                                         !.node[nd].prev = h1.node[old_node].prev]
                     IN IF a.list[l].head = old_node
                        THEN [a EXCEPT !.list[l].head = nd] ELSE a
          h3 == IF h2.node[nd].prev # NULL
                THEN [h2 EXCEPT !.node[h2.node[nd].prev].next = nd] ELSE h2
          h4 == IF h3.node[nd].next # NULL
                THEN [h3 EXCEPT !.node[h3.node[nd].next].prev = nd] ELSE h3
      IN [h |-> [h4 EXCEPT !.list[l].len = @ + 1], ret |-> l]

\* listInsertNode without the fix of the successor's back link.
listInsertNode_NoBackLink(h, l, old_node, value, after, fail) ==
    LET nd == zmallocNode(h, fail) IN
    IF nd = NULL THEN [h |-> h, ret |-> NULL]
    ELSE
      LET h1 == [h EXCEPT !.node[nd].live = TRUE, !.node[nd].value = value]
          h2 == IF after
                THEN LET a == [h1 EXCEPT !.node[nd].prev = old_node,
                                         !.node[nd].next = h1.node[old_node].next]
                     IN IF a.list[l].tail = old_node
                        THEN [a EXCEPT !.list[l].tail = nd] ELSE a
                ELSE LET a == [h1 EXCEPT !.node[nd].next = old_node,
                                         !.node[nd].prev = h1.node[old_node].prev]
                     IN IF a.list[l].head = old_node
                        THEN [a EXCEPT !.list[l].head = nd] ELSE a
          h3 == IF h2.node[nd].prev # NULL
                THEN [h2 EXCEPT !.node[h2.node[nd].prev].next = nd] ELSE h2
      IN [h |-> [h3 EXCEPT !.list[l].len = @ + 1], ret |-> l]

listInsertNode(h, l, old_node, value, after, fail) ==
    LET nd == zmallocNode(h, fail) IN
    IF nd = NULL THEN [h |-> h, ret |-> NULL]
    ELSE
      LET h1 == [h EXCEPT !.node[nd].live = TRUE, !.node[nd].value = value]
          h2 == IF after
                THEN LET a == [h1 EXCEPT !.node[nd].prev = old_node,
                                         !.node[nd].next = h1.node[old_node].next]
                     IN IF a.list[l].tail = old_node
                        THEN [a EXCEPT !.list[l].tail = nd] ELSE a
                ELSE LET a == [h1 EXCEPT !.node[nd].next = old_node,
                                         !.node[nd].prev = h1.node[old_node].prev]
                     IN IF a.list[l].head = old_node
                        THEN [a EXCEPT !.list[l].head = nd] ELSE a
          h3 == IF h2.node[nd].prev # NULL
                THEN [h2 EXCEPT !.node[h2.node[nd].prev].next = nd] ELSE h2
          h4 == IF h3.node[nd].next # NULL
                THEN [h3 EXCEPT !.node[h3.node[nd].next].prev = nd] ELSE h3
      IN [h |-> [h4 EXCEPT !.list[l].len = @ + 1], ret |-> l]

\* listDelNode that frees the node without the release callback.
listDelNode_NoRelease(h, l, nd) ==
    LET h1 == IF h.node[nd].prev # NULL
              THEN [h EXCEPT !.node[h.node[nd].prev].next = h.node[nd].next]
              ELSE [h EXCEPT !.list[l].head = h.node[nd].next]
        h2 == IF h1.node[nd].next # NULL
              THEN [h1 EXCEPT !.node[h1.node[nd].next].prev = h1.node[nd].prev]
              ELSE [h1 EXCEPT !.list[l].tail = h1.node[nd].prev]
        h4 == zfreeNode(h2, nd)
    IN [h |-> [h4 EXCEPT !.list[l].len = @ - 1], ret |-> NULL]

listDelNode(h, l, nd) ==
    LET h1 == IF h.node[nd].prev # NULL
              THEN [h EXCEPT !.node[h.node[nd].prev].next = h.node[nd].next]
              ELSE [h EXCEPT !.list[l].head = h.node[nd].next]
        h2 == IF h1.node[nd].next # NULL
              THEN [h1 EXCEPT !.node[h1.node[nd].next].prev = h1.node[nd].prev]
              ELSE [h1 EXCEPT !.list[l].tail = h1.node[nd].prev]
        h3 == IF h2.list[l].free THEN callFree(h2, h2.node[nd].value) ELSE h2
        h4 == zfreeNode(h3, nd)
    IN [h |-> [h4 EXCEPT !.list[l].len = @ - 1], ret |-> NULL]

\* The while(len--) loop of listEmpty.  The loop trusts len: it stops here
\* on a NULL current only so that the walk is defined on every heap.
RECURSIVE listEmptyLoop(_, _, _, _)
listEmptyLoop(h, l, current, len) ==
    IF len = 0 \/ current = NULL THEN h
    ELSE LET next == h.node[current].next
             h1 == IF h.list[l].free
                   THEN callFree(h, h.node[current].value) ELSE h
             h2 == zfreeNode(h1, current)
         IN listEmptyLoop(h2, l, next, len - 1)

\* listEmpty leaving list->tail on the freed tail.
listEmpty_KeepTail(h, l) ==
    LET h1 == listEmptyLoop(h, l, h.list[l].head, h.list[l].len)
        h2 == [h1 EXCEPT !.list[l].head = NULL]
    IN [h |-> [h2 EXCEPT !.list[l].len = 0], ret |-> NULL]

listEmpty(h, l) ==
    LET h1 == listEmptyLoop(h, l, h.list[l].head, h.list[l].len)
        h2 == [h1 EXCEPT !.list[l].head = NULL, !.list[l].tail = NULL]
    IN [h |-> [h2 EXCEPT !.list[l].len = 0], ret |-> NULL]

\* listRelease freeing the header alone.
listRelease_HeaderOnly(h, l) == [h |-> zfreeList(h, l), ret |-> NULL]

listRelease(h, l) ==
    LET h1 == listEmpty(h, l).h
    IN [h |-> zfreeList(h1, l), ret |-> NULL]

\* listRotate leaving the new tail's next link on the moved node.
listRotate_KeepNext(h, l) ==
    LET tail == h.list[l].tail IN
    IF h.list[l].len <= 1 THEN [h |-> h, ret |-> NULL]
    ELSE
      LET h1 == [h EXCEPT !.list[l].tail = h.node[tail].prev]
          h3 == [h1 EXCEPT !.node[h1.list[l].head].prev = tail]
          h4 == [h3 EXCEPT !.node[tail].prev = NULL]
          h5 == [h4 EXCEPT !.node[tail].next = h4.list[l].head]
      IN [h |-> [h5 EXCEPT !.list[l].head = tail], ret |-> NULL]

\* listRotate leaving the moved node's prev link as it was.
listRotate_KeepPrev(h, l) ==
    LET tail == h.list[l].tail IN
    IF h.list[l].len <= 1 THEN [h |-> h, ret |-> NULL]
    ELSE
      LET h1 == [h EXCEPT !.list[l].tail = h.node[tail].prev]
          h2 == [h1 EXCEPT !.node[h1.list[l].tail].next = NULL]
          h3 == [h2 EXCEPT !.node[h2.list[l].head].prev = tail]
          h5 == [h3 EXCEPT !.node[tail].next = h3.list[l].head]
      IN [h |-> [h5 EXCEPT !.list[l].head = tail], ret |-> NULL]

listRotate(h, l) ==
    LET tail == h.list[l].tail IN
    IF h.list[l].len <= 1 THEN [h |-> h, ret |-> NULL]
    ELSE
      LET h1 == [h EXCEPT !.list[l].tail = h.node[tail].prev]
          h2 == [h1 EXCEPT !.node[h1.list[l].tail].next = NULL]
          h3 == [h2 EXCEPT !.node[h2.list[l].head].prev = tail]
          h4 == [h3 EXCEPT !.node[tail].prev = NULL]
          h5 == [h4 EXCEPT !.node[tail].next = h4.list[l].head]
      IN [h |-> [h5 EXCEPT !.list[l].head = tail], ret |-> NULL]

\* listJoin that sets no head when l is empty.
listJoin_NoHead(h, l, o) ==
    LET h1 == IF h.list[o].head # NULL
              THEN [h EXCEPT !.node[h.list[o].head].prev = h.list[l].tail]
              ELSE h
        h2 == IF h1.list[l].tail # NULL
              THEN [h1 EXCEPT !.node[h1.list[l].tail].next = h1.list[o].head]
              ELSE h1
        h3 == IF h2.list[o].tail # NULL
              THEN [h2 EXCEPT !.list[l].tail = h2.list[o].tail] ELSE h2
        h4 == [h3 EXCEPT !.list[l].len = @ + h3.list[o].len]
        h5 == [h4 EXCEPT !.list[o].head = NULL]
        h6 == [h5 EXCEPT !.list[o].tail = NULL]
    IN [h |-> [h6 EXCEPT !.list[o].len = 0], ret |-> NULL]

\* listJoin leaving o->head on the node it handed over.
listJoin_KeepSource(h, l, o) ==
    LET h1 == IF h.list[o].head # NULL
              THEN [h EXCEPT !.node[h.list[o].head].prev = h.list[l].tail]
              ELSE h
        h2 == IF h1.list[l].tail # NULL
              THEN [h1 EXCEPT !.node[h1.list[l].tail].next = h1.list[o].head]
              ELSE [h1 EXCEPT !.list[l].head = h1.list[o].head]
        h3 == IF h2.list[o].tail # NULL
              THEN [h2 EXCEPT !.list[l].tail = h2.list[o].tail] ELSE h2
        h4 == [h3 EXCEPT !.list[l].len = @ + h3.list[o].len]
        h6 == [h4 EXCEPT !.list[o].tail = NULL]
    IN [h |-> [h6 EXCEPT !.list[o].len = 0], ret |-> NULL]

listJoin(h, l, o) ==
    LET h1 == IF h.list[o].head # NULL
              THEN [h EXCEPT !.node[h.list[o].head].prev = h.list[l].tail]
              ELSE h
        h2 == IF h1.list[l].tail # NULL
              THEN [h1 EXCEPT !.node[h1.list[l].tail].next = h1.list[o].head]
              ELSE [h1 EXCEPT !.list[l].head = h1.list[o].head]
        h3 == IF h2.list[o].tail # NULL
              THEN [h2 EXCEPT !.list[l].tail = h2.list[o].tail] ELSE h2
        h4 == [h3 EXCEPT !.list[l].len = @ + h3.list[o].len]
        h5 == [h4 EXCEPT !.list[o].head = NULL]
        h6 == [h5 EXCEPT !.list[o].tail = NULL]
    IN [h |-> [h6 EXCEPT !.list[o].len = 0], ret |-> NULL]

\* listSetDupMethod, listSetFreeMethod, listSetMatchMethod: m is TRUE for a
\* function and FALSE for NULL.
listSetDupMethod(h, l, m) == [h |-> [h EXCEPT !.list[l].dup = m], ret |-> NULL]
listSetFreeMethod(h, l, m) == [h |-> [h EXCEPT !.list[l].free = m], ret |-> NULL]
listSetMatchMethod(h, l, m) == [h |-> [h EXCEPT !.list[l].match = m], ret |-> NULL]

\* ------------------------------------------------------------- iterators
\* listGetIterator: the iterator cell i, or NULL when zmalloc fails.
listGetIterator(its, ls, l, direction, i) ==
    IF i = NULL THEN [its |-> its, ret |-> NULL]
    ELSE [its |-> [its EXCEPT ![i] =
                     [live |-> TRUE,
                      next |-> IF direction = AL_START_HEAD
                               THEN ls[l].head ELSE ls[l].tail,
                      direction |-> direction]],
          ret |-> i]

listReleaseIterator(its, i) == [its EXCEPT ![i] = FreeIter]

listRewind(ls, l, li) ==
    [li EXCEPT !.next = ls[l].head, !.direction = AL_START_HEAD]

listRewindTail(ls, l, li) ==
    [li EXCEPT !.next = ls[l].tail, !.direction = AL_START_TAIL]

\* listNext following next whatever the direction.
listNext_AlwaysNext(nd, it) ==
    LET current == it.next IN
    IF current # NULL
    THEN [it |-> [it EXCEPT !.next = nd[current].next], ret |-> current]
    ELSE [it |-> it, ret |-> current]

\* listNext on an iterator whose cursor is NULL or an allocated node.
listNext(nd, it) ==
    LET current == it.next IN
    IF current # NULL
    THEN [it |-> [it EXCEPT !.next = IF it.direction = AL_START_HEAD
                                     THEN nd[current].next
                                     ELSE nd[current].prev],
          ret |-> current]
    ELSE [it |-> it, ret |-> current]

\* ----------------------------------------------------- derived operations
\* The while loop of listDup; i counts the nodes met.  f names the call that
\* fails: the i-th dup callback (f.kind = "dup") or the i-th node allocation
\* (f.kind = "node").
\* The loop of listDup adding every value at the head of the copy.
RECURSIVE listDupLoop_AtHead(_, _, _, _, _)
listDupLoop_AtHead(h, copy, it, i, f) ==
    LET nx == listNext(h.node, it) IN
    IF nx.ret = NULL THEN [h |-> h, ret |-> copy]
    ELSE IF h.list[copy].dup /\ f.kind = "dup" /\ f.k = i
    THEN [h |-> listRelease(h, copy).h, ret |-> NULL]
    ELSE LET d == IF h.list[copy].dup
                  THEN callDup(h, h.node[nx.ret].value)
                  ELSE [h |-> h, ret |-> h.node[nx.ret].value]
             value == d.ret
             a == listAddNodeHead(d.h, copy, value, f.kind = "node" /\ f.k = i)
         IN IF a.ret = NULL
            THEN [h |-> listRelease(d.h, copy).h, ret |-> NULL]
            ELSE listDupLoop_AtHead(a.h, copy, nx.it, i + 1, f)

RECURSIVE listDupLoop(_, _, _, _, _)
listDupLoop(h, copy, it, i, f) ==
    LET nx == listNext(h.node, it) IN
    IF nx.ret = NULL THEN [h |-> h, ret |-> copy]
    ELSE IF h.list[copy].dup /\ f.kind = "dup" /\ f.k = i
    THEN [h |-> listRelease(h, copy).h, ret |-> NULL]
    ELSE LET d == IF h.list[copy].dup
                  THEN callDup(h, h.node[nx.ret].value)
                  ELSE [h |-> h, ret |-> h.node[nx.ret].value]
             value == d.ret
             a == listAddNodeTail(d.h, copy, value, f.kind = "node" /\ f.k = i)
         IN IF a.ret = NULL
            THEN [h |-> listRelease(d.h, copy).h, ret |-> NULL]
            ELSE listDupLoop(a.h, copy, nx.it, i + 1, f)

listDup(h, orig, f) ==
    LET c == listCreate(h, f.kind = "hdr") IN
    IF c.ret = NULL THEN [h |-> h, ret |-> NULL]
    ELSE LET copy == c.ret
             h1 == [c.h EXCEPT !.list[copy].dup = c.h.list[orig].dup]
             h2 == [h1 EXCEPT !.list[copy].free = h1.list[orig].free]
             h3 == [h2 EXCEPT !.list[copy].match = h2.list[orig].match]
             it == listRewind(h3.list, orig, FreeIter)
         IN listDupLoop(h3, copy, it, 1, f)

RECURSIVE listSearchLoop(_, _, _, _)
listSearchLoop(h, l, it, key) ==
    LET nx == listNext(h.node, it) IN
    IF nx.ret = NULL THEN NULL
    ELSE IF h.list[l].match
    THEN IF MatchFn(h.node[nx.ret].value, key) THEN nx.ret
         ELSE listSearchLoop(h, l, nx.it, key)
    ELSE IF key = h.node[nx.ret].value THEN nx.ret
         ELSE listSearchLoop(h, l, nx.it, key)

\* listSearchKey scanning from the tail.
listSearchKey_FromTail(h, l, key) ==
    [h |-> h,
     ret |-> listSearchLoop(h, l, listRewindTail(h.list, l, FreeIter), key)]

\* listSearchKey, without match callback, with the comparison of the value
\* and the key written as an assignment: if (node->value = key).
listSearchKey_Assign(h, l, key) ==
    IF h.list[l].match \/ h.list[l].head = NULL \/ key = NULL
    THEN [h |-> h,
          ret |-> listSearchLoop(h, l, listRewind(h.list, l, FreeIter), key)]
    ELSE [h |-> [h EXCEPT !.node[h.list[l].head].value = key],
          ret |-> h.list[l].head]

listSearchKey(h, l, key) ==
    [h |-> h, ret |-> listSearchLoop(h, l, listRewind(h.list, l, FreeIter), key)]

\* Arithmetic on a long wraps to its width: -index of the least long is the
\* least long again, and (-index)-1 is then the greatest long, which is also
\* what a build that folds the expression to ~index computes.
WrapLong(x) == ((x - LongMin) % (2 ^ LongBits)) + LongMin

\* while(index-- && n) n = n->next (or n->prev); steps counts the links
\* followed.
RECURSIVE listIndexLoop(_, _, _, _, _)
listIndexLoop(nd, n, index, forward, steps) ==
    IF index = 0 \/ n = NULL THEN [ret |-> n, steps |-> steps]
    ELSE listIndexLoop(nd, IF forward THEN nd[n].next ELSE nd[n].prev,
                       WrapLong(index - 1), forward, steps + 1)

\* listIndex reaching a negative index from the head, by way of len.
listIndex_FromHead(h, l, index) ==
    IF index < 0
    THEN IF h.list[l].len + index < 0
         THEN listIndexLoop(h.node, h.list[l].tail,
                            WrapLong(WrapLong(-index) - 1), FALSE, 0)
         ELSE listIndexLoop(h.node, h.list[l].head,
                            h.list[l].len + index, TRUE, 0)
    ELSE listIndexLoop(h.node, h.list[l].head, index, TRUE, 0)

\* listIndex without the -1 of the negative offset.
listIndex_NoMinusOne(h, l, index) ==
    IF index < 0
    THEN listIndexLoop(h.node, h.list[l].tail, WrapLong(-index), FALSE, 0)
    ELSE listIndexLoop(h.node, h.list[l].head, index, TRUE, 0)

listIndex(h, l, index) ==
    IF index < 0
    THEN listIndexLoop(h.node, h.list[l].tail,
                       WrapLong(WrapLong(-index) - 1), FALSE, 0)
    ELSE listIndexLoop(h.node, h.list[l].head, index, TRUE, 0)

\* ------------------------------------------------------ reading the list
\* The nodes met from cur by following next (forward) or prev (backward);
\* fuel bounds the walk so that it is defined on a cyclic chain too.
RECURSIVE Walk(_, _, _, _)
Walk(nd, cur, forward, fuel) ==
    IF cur = NULL \/ fuel = 0 THEN <<>>
    ELSE <<cur>> \o Walk(nd, IF forward THEN nd[cur].next ELSE nd[cur].prev,
                         forward, fuel - 1)

Forward(nd, ls, l) == Walk(nd, ls[l].head, TRUE, MaxNodes + 1)
Backward(nd, ls, l) == Walk(nd, ls[l].tail, FALSE, MaxNodes + 1)
Reverse(s) == [i \in 1..Len(s) |-> s[Len(s) + 1 - i]]
Range(s) == {s[i] : i \in 1..Len(s)}
\* The place of node n in the traversal s, and s without its p-th node.
PosOf(s, n) == CHOOSE p \in 1..Len(s) : s[p] = n
Without(s, p) == SubSeq(s, 1, p - 1) \o SubSeq(s, p + 1, Len(s))



\* ------------------------------------------------------------ the program
Heap == [node |-> node, list |-> list, rel |-> <<>>, dupd |-> <<>>]

Call(name, l) == [NoCall EXCEPT !.op = name, !.l = l]

\* The heap and the call record after a call that returned r.
Done(r, call) ==
    /\ node' = r.h.node
    /\ list' = r.h.list
    /\ last' = [call EXCEPT !.ret = r.ret, !.rel = r.h.rel,
                            !.dupd = r.h.dupd]

Init ==
    /\ node = [n \in Nodes |-> FreeNode]
    /\ list = [l \in Lists |-> FreeList]
    /\ iter = [i \in Iters |-> FreeIter]
    /\ last = NoCall
    /\ seated = [i \in Iters |-> <<>>]
    /\ yielded = [i \in Iters |-> <<>>]
    /\ kept = [i \in Iters |-> FALSE]

NoList == \A l \in Lists : ~list[l].live
Room == Cardinality(Nodes \ FreeNodes(Heap)) < MaxLive
OneList == Cardinality({l \in Lists : list[l].live}) = 1
\* The latest call stored the first value reference.
FirstValue == last'.v = 1
InList(l) == Range(Forward(node, list, l))

\* An allocation succeeds only while the pool has a free cell; running out
\* of cells is the failure the caller sees.
Create ==
    \E fail \in BOOLEAN :
      /\ fail \/ FreeLists(Heap) # {}
      /\ Done(listCreate(Heap, fail),
              [Call("create", NULL) EXCEPT !.fail = IF fail THEN "hdr" ELSE "none"])

AddNodeHead ==
    \E l \in Lists, v \in Values, fail \in BOOLEAN :
      /\ list[l].live
      /\ fail \/ FreeNodes(Heap) # {}
      /\ Done(listAddNodeHead(Heap, l, v, fail),
              IF fail THEN [Call("addhead", l) EXCEPT !.fail = "node"]
              ELSE [Call("addhead", l) EXCEPT !.v = v])

AddNodeTail ==
    \E l \in Lists, v \in Values, fail \in BOOLEAN :
      /\ list[l].live
      /\ fail \/ FreeNodes(Heap) # {}
      /\ Done(listAddNodeTail(Heap, l, v, fail),
              IF fail THEN [Call("addtail", l) EXCEPT !.fail = "node"]
              ELSE [Call("addtail", l) EXCEPT !.v = v])

InsertNode ==
    \E l \in Lists, v \in Values, after \in BOOLEAN, fail \in BOOLEAN :
      /\ list[l].live
      /\ fail \/ FreeNodes(Heap) # {}
      /\ \E old \in InList(l) :
           Done(listInsertNode(Heap, l, old, v, after, fail),
                IF fail THEN [Call("insert", l) EXCEPT !.fail = "node"]
                ELSE [Call("insert", l) EXCEPT !.n = old, !.v = v,
                                               !.k = IF after THEN 1 ELSE 0])

DelNode ==
    \E l \in Lists :
      /\ list[l].live
      /\ \E nd \in InList(l) :
           Done(listDelNode(Heap, l, nd), [Call("del", l) EXCEPT !.n = nd])

Empty ==
    \E l \in Lists :
      /\ list[l].live
      /\ Done(listEmpty(Heap, l), [Call("empty", l) EXCEPT !.k = list[l].len])

Release ==
    \E l \in Lists :
      /\ list[l].live
      /\ Done(listRelease(Heap, l), [Call("release", l) EXCEPT !.k = list[l].len])

Rotate ==
    \E l \in Lists :
      /\ list[l].live
      /\ Done(listRotate(Heap, l), [Call("rotate", l) EXCEPT !.k = list[l].len])

Join ==
    \E l \in Lists, o \in Lists :
      /\ list[l].live /\ list[o].live
      /\ l # o
      /\ Done(listJoin(Heap, l, o),
              [Call("join", l) EXCEPT !.o = o, !.k = list[o].len])

\* listJoin(l, l): the same list as destination and as source.
JoinSelf ==
    \E l \in Lists :
      /\ list[l].live
      /\ Done(listJoin(Heap, l, l),
              [Call("join", l) EXCEPT !.o = l, !.k = list[l].len])

SetDupMethod ==
    \E l \in Lists, m \in BOOLEAN :
      /\ list[l].live
      /\ Done(listSetDupMethod(Heap, l, m), Call("setdup", l))

SetFreeMethod ==
    \E l \in Lists, m \in BOOLEAN :
      /\ list[l].live
      /\ Done(listSetFreeMethod(Heap, l, m), Call("setfree", l))

SetMatchMethod ==
    \E l \in Lists, m \in BOOLEAN :
      /\ list[l].live
      /\ Done(listSetMatchMethod(Heap, l, m), Call("setmatch", l))

\* The failures listDup can meet on a list of length len: none, the header
\* allocation, the k-th dup callback, the k-th node allocation.
DupFailures(len) ==
    {[kind |-> "none", k |-> 0], [kind |-> "hdr", k |-> 0]}
      \cup [kind : {"dup", "node"}, k : 1..len]

\* The allocations that listDup makes before the failure f succeed.
Affordable(l, f) ==
    \/ f.kind = "hdr"
    \/ /\ FreeLists(Heap) # {}
       /\ f.kind = "dup" => list[l].dup
       /\ Cardinality(FreeNodes(Heap)) >=
            (IF f.kind = "none" THEN list[l].len ELSE f.k - 1)

Dup ==
    \E l \in Lists :
      /\ list[l].live
      /\ \E f \in DupFailures(list[l].len) :
           /\ Affordable(l, f)
           /\ Done(listDup(Heap, l, f),
                   [Call("dup", l) EXCEPT !.fail = f.kind, !.k = f.k])

SearchKey ==
    \E l \in Lists, key \in Keys :
      /\ list[l].live
      /\ Done(listSearchKey(Heap, l, key), [Call("search", l) EXCEPT !.v = key])

Index ==
    \E l \in Lists, index \in Longs :
      /\ list[l].live
      /\ LET r == listIndex(Heap, l, index) IN
           Done([h |-> Heap, ret |-> r.ret],
                [Call("index", l) EXCEPT !.k = index, !.steps = r.steps])

\* ---------------------------------------------------- iterating the list
\* What the caller of an iterator has seen since it seated it: seated is the
\* traversal of the list when iterator i was seated, yielded the pointers
\* listNext returned since (one closing NULL at most), and kept tells whether
\* the list was since changed only by listDelNode on the node returned last.
\* The two sequences are dropped once kept is FALSE.
FreeIters == {i \in Iters : ~iter[i].live}
LastOf(s) == IF s = <<>> THEN NULL ELSE s[Len(s)]

Seat(i, trav) ==
    /\ seated' = [seated EXCEPT ![i] = trav]
    /\ yielded' = [yielded EXCEPT ![i] = <<>>]
    /\ kept' = [kept EXCEPT ![i] = TRUE]

Unseat(i) ==
    /\ seated' = [seated EXCEPT ![i] = <<>>]
    /\ yielded' = [yielded EXCEPT ![i] = <<>>]
    /\ kept' = [kept EXCEPT ![i] = FALSE]

\* The iterators after a call that changed the list: the call record tells
\* whether it was a listDelNode, and of which node.
Mutated ==
    LET n == IF last'.op = "del" THEN last'.n ELSE NULL
        k == [i \in Iters |-> kept[i] /\ n # NULL /\ LastOf(yielded[i]) = n]
    IN /\ iter' = iter
       /\ kept' = k
       /\ seated' = [i \in Iters |-> IF k[i] THEN seated[i] ELSE <<>>]
       /\ yielded' = [i \in Iters |-> IF k[i] THEN yielded[i] ELSE <<>>]

GetIterator ==
    \E l \in Lists, direction \in {AL_START_HEAD, AL_START_TAIL}, fail \in BOOLEAN :
      /\ list[l].live
      /\ fail \/ FreeIters # {}
      /\ LET i == IF fail THEN NULL ELSE Min(FreeIters)
             r == listGetIterator(iter, list, l, direction, i)
         IN /\ iter' = r.its
            /\ last' = IF fail THEN [Call("getiter", l) EXCEPT !.fail = "iter"]
                       ELSE [Call("getiter", l) EXCEPT !.k = direction, !.ret = r.ret]
            /\ IF fail THEN UNCHANGED <<seated, yielded, kept>>
               ELSE Seat(i, IF direction = AL_START_HEAD
                            THEN Forward(node, list, l)
                            ELSE Backward(node, list, l))
      /\ UNCHANGED <<node, list>>

ReleaseIterator ==
    \E i \in Iters :
      /\ iter[i].live
      /\ iter' = listReleaseIterator(iter, i)
      /\ last' = [Call("reliter", NULL) EXCEPT !.k = i]
      /\ Unseat(i)
      /\ UNCHANGED <<node, list>>

Rewind ==
    \E l \in Lists, i \in Iters :
      /\ list[l].live /\ iter[i].live
      /\ iter' = [iter EXCEPT ![i] = listRewind(list, l, iter[i])]
      /\ last' = [Call("rewind", l) EXCEPT !.k = i]
      /\ Seat(i, Forward(node, list, l))
      /\ UNCHANGED <<node, list>>

RewindTail ==
    \E l \in Lists, i \in Iters :
      /\ list[l].live /\ iter[i].live
      /\ iter' = [iter EXCEPT ![i] = listRewindTail(list, l, iter[i])]
      /\ last' = [Call("rewindtail", l) EXCEPT !.k = i]
      /\ Seat(i, Backward(node, list, l))
      /\ UNCHANGED <<node, list>>

\* listNext, called while the cursor is NULL or an allocated node: a caller
\* that left the cursor on a freed node must seat the iterator again first.
IterNext ==
    \E i \in Iters :
      /\ iter[i].live
      /\ iter[i].next # NULL => node[iter[i].next].live
      /\ LET r == listNext(node, iter[i]) IN
           /\ iter' = [iter EXCEPT ![i] = r.it]
           /\ last' = [Call("next", NULL) EXCEPT !.k = i, !.ret = r.ret]
           /\ yielded' = [yielded EXCEPT ![i] =
                            IF ~kept[i] \/ (r.ret = NULL /\ @ # <<>> /\ LastOf(@) = NULL)
                            THEN @ ELSE Append(@, r.ret)]
      /\ UNCHANGED <<node, list, seated, kept>>

\* One list of nodes that hold the first value, built at the tail, read
\* through two iterators, searched and indexed.
NextRead ==
    \/ NoList /\ Create /\ Mutated
    \/ SetMatchMethod /\ UNCHANGED iterVars
    \/ Room /\ AddNodeTail /\ FirstValue /\ Mutated
    \/ GetIterator
    \/ Rewind
    \/ RewindTail
    \/ IterNext
    \/ SearchKey /\ UNCHANGED iterVars
    \/ Index /\ UNCHANGED iterVars

SpecRead == Init /\ [][NextRead]_vars

\* ------------------------------------------------------ specifications
\* Every structural operation on two lists.
Next ==
    \/ Create /\ UNCHANGED iterVars
    \/ Room /\ AddNodeHead /\ UNCHANGED iterVars
    \/ Room /\ AddNodeTail /\ UNCHANGED iterVars
    \/ Room /\ InsertNode /\ UNCHANGED iterVars
    \/ DelNode /\ UNCHANGED iterVars
    \/ Empty /\ UNCHANGED iterVars
    \/ Release /\ UNCHANGED iterVars
    \/ Rotate /\ UNCHANGED iterVars
    \/ Join /\ UNCHANGED iterVars
    \/ SetFreeMethod /\ UNCHANGED iterVars

Spec == Init /\ [][Next]_vars

\* A list, its callbacks set while it is the only list, and its duplicates.
NextDup ==
    \/ NoList /\ Create /\ UNCHANGED iterVars
    \/ OneList /\ SetDupMethod /\ UNCHANGED iterVars
    \/ OneList /\ SetFreeMethod /\ UNCHANGED iterVars
    \/ OneList /\ SetMatchMethod /\ UNCHANGED iterVars
    \/ Room /\ AddNodeTail /\ UNCHANGED iterVars
    \/ Rotate /\ UNCHANGED iterVars
    \/ Release /\ UNCHANGED iterVars
    \/ Dup /\ UNCHANGED iterVars

SpecDup == Init /\ [][NextDup]_vars

\* Lists built at the tail and edited: nodes inserted at an anchor, nodes
\* deleted, lists emptied and released, with and without release callback.
NextEdit ==
    \/ Create /\ UNCHANGED iterVars
    \/ SetFreeMethod /\ UNCHANGED iterVars
    \/ Room /\ AddNodeTail /\ UNCHANGED iterVars
    \/ Room /\ InsertNode /\ UNCHANGED iterVars
    \/ DelNode /\ UNCHANGED iterVars
    \/ Empty /\ UNCHANGED iterVars
    \/ Release /\ UNCHANGED iterVars

SpecEdit == Init /\ [][NextEdit]_vars

\* Nodes changing hands: lists of one value reference, without callbacks,
\* built, edited, rotated, joined, duplicated (with every allocation failure
\* of listDup), emptied and released.
NextOwn ==
    \/ Create /\ UNCHANGED iterVars
    \/ Room /\ AddNodeTail /\ FirstValue /\ UNCHANGED iterVars
    \/ Room /\ InsertNode /\ FirstValue /\ UNCHANGED iterVars
    \/ DelNode /\ UNCHANGED iterVars
    \/ Rotate /\ UNCHANGED iterVars
    \/ Join /\ UNCHANGED iterVars
    \/ Dup /\ UNCHANGED iterVars
    \/ Empty /\ UNCHANGED iterVars
    \/ Release /\ UNCHANGED iterVars

SpecOwn == Init /\ [][NextOwn]_vars

\* The value references stored in the allocated nodes of nd.
Stored(nd) == {nd[n].value : n \in {x \in Nodes : nd[x].live}}
\* The latest call stored a value reference that no node held.
Unstored == last'.v \in Values \ Stored(node)

\* A caller that stores each value reference in one node at most, on a list
\* without dup callback, with or without release callback, duplicated
\* (with every allocation failure of listDup), edited, emptied and released.
NextShare ==
    \/ NoList /\ Create /\ UNCHANGED iterVars
    \/ OneList /\ SetFreeMethod /\ UNCHANGED iterVars
    \/ Room /\ AddNodeTail /\ Unstored /\ UNCHANGED iterVars
    \/ DelNode /\ UNCHANGED iterVars
    \/ Dup /\ UNCHANGED iterVars
    \/ Empty /\ UNCHANGED iterVars
    \/ Release /\ UNCHANGED iterVars

SpecShare == Init /\ [][NextShare]_vars

\* One list, built, edited and joined to itself.
NextSelfJoin ==
    \/ NoList /\ Create /\ UNCHANGED iterVars
    \/ Room /\ AddNodeHead /\ UNCHANGED iterVars
    \/ Room /\ AddNodeTail /\ UNCHANGED iterVars
    \/ DelNode /\ UNCHANGED iterVars
    \/ JoinSelf /\ UNCHANGED iterVars

SpecSelfJoin == Init /\ [][NextSelfJoin]_vars

\* One list, searched and indexed.
NextQuery ==
    \/ NoList /\ Create /\ UNCHANGED iterVars
    \/ SetMatchMethod /\ UNCHANGED iterVars
    \/ Room /\ AddNodeHead /\ UNCHANGED iterVars
    \/ Room /\ AddNodeTail /\ UNCHANGED iterVars
    \/ DelNode /\ UNCHANGED iterVars
    \/ SearchKey /\ UNCHANGED iterVars
    \/ Index /\ UNCHANGED iterVars

SpecQuery == Init /\ [][NextQuery]_vars

\* One list of nodes that hold the first value, and the iterators over it.
NextIter ==
    \/ NoList /\ Create /\ Mutated
    \/ Room /\ AddNodeHead /\ FirstValue /\ Mutated
    \/ Room /\ AddNodeTail /\ FirstValue /\ Mutated
    \/ DelNode /\ Mutated
    \/ Rotate /\ Mutated
    \/ GetIterator
    \/ ReleaseIterator
    \/ Rewind
    \/ RewindTail
    \/ IterNext

SpecIter == Init /\ [][NextIter]_vars

\* ---------------------------------------------------------------- claims
\* C1: after any sequence of the structural operations on valid lists, the
\* len of every list is the number of nodes met by following next from head,
\* which is the number met by following prev from tail, and the backward
\* traversal is the forward traversal reversed.
C1_LenAndTraversals ==
    \A l \in Lists : list[l].live =>
      LET f == Forward(node, list, l)
          b == Backward(node, list, l)
      IN /\ list[l].len = Len(f)
         /\ Len(b) = Len(f)
         /\ b = Reverse(f)

\* A full list that listInsertNode has just grown.
C1_Witness ==
    /\ last.op = "insert" /\ last.ret # NULL
    /\ list[last.l].len = MaxLive

\* C2: after every completed operation the links are mutually consistent:
\* n.next.prev = n and n.prev.next = n wherever the link is not NULL,
\* head.prev and tail.next are NULL, and head is NULL exactly when tail is
\* NULL exactly when len is 0.
C2_LinksConsistent ==
    /\ \A n \in Nodes : node[n].live =>
         /\ node[n].next # NULL => node[node[n].next].prev = n
         /\ node[n].prev # NULL => node[node[n].prev].next = n
    /\ \A l \in Lists : list[l].live =>
         /\ list[l].head # NULL => node[list[l].head].prev = NULL
         /\ list[l].tail # NULL => node[list[l].tail].next = NULL
         /\ (list[l].head = NULL) <=> (list[l].tail = NULL)
         /\ (list[l].tail = NULL) <=> (list[l].len = 0)

\* A list of three nodes that listRotate has just relinked.
C2_Witness ==
    /\ last.op = "rotate" /\ last.k = 3
    /\ list[last.l].len = 3

\* C3: when the node allocation fails in listAddNodeHead, listAddNodeTail or
\* listInsertNode, the call returns NULL and every list header (head, tail,
\* len, callbacks) and every node (prev, next, value) is as before the call.
C3_FailedInsertLeavesList ==
    [][(last'.op \in {"addhead", "addtail", "insert"} /\ last'.fail = "node")
         => (last'.ret = NULL /\ node' = node /\ list' = list)]_vars

\* A failed listInsertNode on a list that holds nodes, with a free cell left.
C3_Witness ==
    /\ last.op = "insert" /\ last.fail = "node" /\ last.ret = NULL
    /\ list[last.l].len = 2 /\ list[last.l].free
    /\ FreeNodes([node |-> node]) # {}

\* C7: for two distinct lists a and b, after listJoin(a, b) the traversal of
\* a is its old traversal followed by the old traversal of b, a.len is the
\* sum of the old lengths, and b is an empty list (head and tail NULL, len
\* 0) that is still allocated; an insertion into an empty list, such as b,
\* makes the new node its only node and changes no other list.
C7_Join ==
    [][/\ last'.op = "join" =>
            LET a == last'.l
                b == last'.o
            IN /\ Forward(node', list', a) =
                    Forward(node, list, a) \o Forward(node, list, b)
               /\ Backward(node', list', a) =
                    Backward(node, list, b) \o Backward(node, list, a)
               /\ list'[a].len = list[a].len + list[b].len
               /\ list'[b] = [list[b] EXCEPT !.head = NULL, !.tail = NULL,
                                             !.len = 0]
               /\ list'[b].live
       /\ (last'.op \in {"addhead", "addtail"} /\ last'.ret # NULL
             /\ list[last'.l].len = 0) =>
            LET b == last'.l
                f == Forward(node', list', b)
            IN /\ Len(f) = 1 /\ list'[b].len = 1
               /\ node'[f[1]].value = last'.v
               /\ ~node[f[1]].live
               /\ \A a \in Lists \ {b} :
                    /\ list'[a] = list[a]
                    /\ \A n \in InList(a) : node'[n] = node[n]
      ]_vars

\* Two lists that held nodes, just joined.
C7_Witness ==
    /\ last.op = "join" /\ last.k >= 1
    /\ list[last.l].len > last.k
    /\ list[last.o].len = 0

\* C8: listRotate changes nothing on a list of length 0 or 1; on a longer
\* list with traversal x1..xn it gives xn, x1..x(n-1) with the same len; it
\* allocates and frees no node, stores no value and calls no release
\* callback.
C8_Rotate ==
    [][last'.op = "rotate" =>
         LET l == last'.l
             f == Forward(node, list, l)
             n == Len(f)
         IN /\ n <= 1 => (node' = node /\ list' = list)
            /\ n >= 2 => Forward(node', list', l) =
                           <<f[n]>> \o SubSeq(f, 1, n - 1)
            /\ list'[l].len = list[l].len
            /\ \A x \in Nodes : /\ node'[x].live = node[x].live
                                /\ node'[x].value = node[x].value
            /\ last'.rel = <<>>
      ]_vars

\* A list of three nodes with a release callback, just rotated.
C8_Witness ==
    /\ last.op = "rotate" /\ last.k = 3
    /\ list[last.l].free
    /\ \E l \in Lists \ {last.l} : list[l].live

\* C9: on a list of length n, listIndex(list, i) returns the i-th node from
\* the head for 0 <= i < n, the (-i)-th node back from the tail for
\* -n <= i <= -1, and NULL for every other long i; so index 0 is the head,
\* index -1 the tail, and indexes n and -n-1 give NULL.
C9_Index ==
    last.op = "index" =>
      LET f == Forward(node, list, last.l)
          n == Len(f)
          i == last.k
      IN /\ last.ret = IF 0 <= i /\ i < n THEN f[i + 1]
                       ELSE IF -n <= i /\ i <= -1 THEN f[n + 1 + i]
                       ELSE NULL
         /\ i = 0 => last.ret = list[last.l].head
         /\ i = -1 => last.ret = list[last.l].tail
         /\ i \in {n, -n - 1} => last.ret = NULL

\* listIndex(list, -2) on a list of three nodes.
C9_Witness ==
    /\ last.op = "index" /\ last.k = -2
    /\ list[last.l].len = 3
    /\ last.ret = node[list[last.l].tail].prev
    /\ last.ret # NULL

\* C10: listSearchKey returns the node nearest the head that matches the
\* key, by the match callback when one is installed and by identity of the
\* value reference and the key otherwise, and NULL exactly when no node of
\* the list matches.
C10_SearchKey ==
    last.op = "search" =>
      LET l == last.l
          f == Forward(node, list, l)
          Matches(n) == IF list[l].match THEN MatchFn(node[n].value, last.v)
                        ELSE node[n].value = last.v
          hits == {i \in 1..Len(f) : Matches(f[i])}
      IN /\ hits = {} <=> last.ret = NULL
         /\ hits # {} => last.ret = f[Min(hits)]

\* A search by callback that passed a node and found, further on, a node
\* whose value is not the key itself, with a second match behind it.
C10_Witness ==
    /\ last.op = "search" /\ list[last.l].match
    /\ last.ret # NULL /\ last.ret # list[last.l].head
    /\ node[last.ret].value # last.v
    /\ last.ret # list[last.l].tail
    /\ MatchFn(node[list[last.l].tail].value, last.v)

\* C5: when listDup succeeds the copy has the len of the source and its
\* three callbacks, its i-th value is the dup callback's copy of the
\* source's i-th value when a dup callback is installed and the same
\* reference otherwise, and its nodes are fresh; listDup, and every later
\* insertion into, rotation of or release of another list such as the copy,
\* leave the source's header and nodes as they were.
C5_DupSucceeds ==
    [][/\ (last'.op = "dup" /\ last'.ret # NULL) =>
            LET o == last'.l
                c == last'.ret
                src == Forward(node, list, o)
                cp == Forward(node', list', c)
            IN /\ c # o /\ ~list[c].live /\ list'[c].live
               /\ list'[c].len = list[o].len
               /\ Len(cp) = Len(src)
               /\ cp = Reverse(Backward(node', list', c))
               /\ list'[c].dup = list[o].dup
               /\ list'[c].free = list[o].free
               /\ list'[c].match = list[o].match
               /\ \A i \in 1..Len(src) :
                    node'[cp[i]].value = IF list[o].dup
                                         THEN DupFn(node[src[i]].value)
                                         ELSE node[src[i]].value
               /\ \A n \in Range(cp) : ~node[n].live /\ node'[n].live
               /\ list'[o] = list[o]
               /\ \A n \in Range(src) : node'[n] = node[n]
       /\ last'.op \in {"addtail", "rotate", "release"} =>
            \A o \in Lists \ {last'.l} :
              /\ list'[o] = list[o]
              /\ \A n \in InList(o) : node'[n] = node[n]
      ]_vars

\* A copy, by the dup callback, of a list of two different values.
C5_Witness ==
    /\ last.op = "dup" /\ last.ret # NULL
    /\ list[last.l].dup /\ list[last.l].match
    /\ list[last.l].len = 2
    /\ node[list[last.l].head].value # node[list[last.l].tail].value
    /\ list[last.ret].len = 2

\* C6: when listDup fails at the k-th element (the dup callback or the node
\* allocation) or at the header allocation, it returns NULL, no list and no
\* node is allocated that was not before, the release callback, when
\* installed, was called once on each of the k-1 values already appended,
\* and the source's header and nodes are as before the call.
C6_DupFails ==
    [][(last'.op = "dup" /\ last'.fail # "none") =>
         LET o == last'.l
             src == Forward(node, list, o)
             appended == [i \in 1..(last'.k - 1) |->
                            IF list[o].dup THEN DupFn(node[src[i]].value)
                            ELSE node[src[i]].value]
         IN /\ last'.ret = NULL
            /\ \A l \in Lists : list'[l].live = list[l].live
            /\ \A n \in Nodes : node'[n].live = node[n].live
            /\ last'.rel = IF list[o].free /\ last'.fail # "hdr"
                           THEN appended ELSE <<>>
            /\ list'[o] = list[o]
            /\ \A n \in Range(src) : node'[n] = node[n]
      ]_vars

\* listDup that failed at the third element with both callbacks installed.
C6_Witness ==
    /\ last.op = "dup" /\ last.fail = "dup" /\ last.k = 3
    /\ last.ret = NULL
    /\ list[last.l].free
    /\ Len(last.rel) = 2 /\ last.rel[1] # last.rel[2]

\* The nodes listNext(i) returned since the seating, without a closing NULL.
NodesYielded(i) ==
    IF yielded[i] # <<>> /\ LastOf(yielded[i]) = NULL
    THEN SubSeq(yielded[i], 1, Len(yielded[i]) - 1) ELSE yielded[i]

\* C4: while the list is changed, since iterator i was seated, only by
\* listDelNode on the node the latest listNext(i) returned, the calls of
\* listNext(i) return the nodes of the list at seating time, each once, in
\* head-to-tail (forward) or tail-to-head (backward) order, and NULL only
\* after all of them; the nodes still to come are allocated, and so is the
\* node a call returns.
C4_IterationWithDeletes ==
    /\ \A i \in Iters : (iter[i].live /\ kept[i]) =>
         LET y == NodesYielded(i) IN
         /\ Len(y) <= Len(seated[i])
         /\ y = SubSeq(seated[i], 1, Len(y))
         /\ (yielded[i] # <<>> /\ LastOf(yielded[i]) = NULL) => y = seated[i]
         /\ \A j \in (Len(y) + 1)..Len(seated[i]) : node[seated[i][j]].live
         /\ iter[i].next = IF Len(y) < Len(seated[i])
                           THEN seated[i][Len(y) + 1] ELSE NULL
    /\ (last.op = "next" /\ kept[last.k] /\ last.ret # NULL) =>
         node[last.ret].live

\* A backward iterator that returned three nodes and then NULL, each node
\* deleted after it was returned.
C4_Witness ==
    \E i \in Iters :
      /\ iter[i].live /\ kept[i]
      /\ iter[i].direction = AL_START_TAIL
      /\ Len(seated[i]) = 3
      /\ yielded[i] = Append(seated[i], NULL)
      /\ \A j \in 1..3 : ~node[seated[i][j]].live

\* C11: listGetIterator never fails: whatever the allocator does, it returns
\* an iterator whose cursor is the head of the list (forward) or its tail
\* (backward).
C11_GetIteratorNeverFails ==
    last.op = "getiter" =>
      /\ last.ret # NULL
      /\ iter[last.ret].live
      /\ iter[last.ret].next = IF last.k = AL_START_HEAD
                               THEN list[last.l].head ELSE list[last.l].tail

\* C12: a successful listInsertNode(list, anchor, v, after) puts one new
\* node holding v right after the anchor when after is not 0 and right
\* before it when after is 0; the new node is the tail iff it went after the
\* old tail and the head iff it went before the old head; len grows by one
\* and the nodes that were in the list keep their order and their values.
C12_InsertNode ==
    [][(last'.op = "insert" /\ last'.ret # NULL) =>
         LET l == last'.l
             f == Forward(node, list, l)
             p == PosOf(f, last'.n)
             after == last'.k # 0
             q == IF after THEN p + 1 ELSE p
             new == CHOOSE x \in Nodes : ~node[x].live /\ node'[x].live
         IN /\ \A x \in Nodes \ {new} : node'[x].live = node[x].live
            /\ node'[new].value = last'.v
            /\ Forward(node', list', l)
                 = SubSeq(f, 1, q - 1) \o <<new>> \o SubSeq(f, q, Len(f))
            /\ (list'[l].tail = new) <=> (after /\ list[l].tail = last'.n)
            /\ (list'[l].head = new) <=> (~after /\ list[l].head = last'.n)
            /\ list'[l].len = list[l].len + 1
            /\ \A n \in Range(f) : node'[n].value = node[n].value
      ]_vars

\* A node just inserted before the tail of a list of two nodes.
C12_Witness ==
    /\ last.op = "insert" /\ last.ret # NULL /\ last.k = 0
    /\ list[last.l].len = 3
    /\ list[last.l].tail = last.n
    /\ node[node[last.n].prev].prev = list[last.l].head

C14_EmptyAndRelease ==
    [][last'.op \in {"empty", "release"} =>
         LET l == last'.l
             f == Forward(node, list, l)
         IN /\ Len(f) = list[l].len
            /\ \A n \in Range(f) : node'[n] = FreeNode
            /\ \A n \in Nodes \ Range(f) : node'[n] = node[n]
            /\ \A o \in Lists \ {l} : list'[o] = list[o]
            /\ last'.rel = IF list[l].free
                           THEN [i \in 1..Len(f) |-> node[f[i]].value]
                           ELSE <<>>
            /\ last'.op = "release" => list'[l] = FreeList
            /\ last'.op = "empty" =>
                 /\ list'[l] = [FreeList EXCEPT !.live = TRUE,
                                                !.dup = list[l].dup,
                                                !.free = list[l].free,
                                                !.match = list[l].match]
                 /\ \A v \in Values :
                      LET a == listAddNodeTail(
                                 [node |-> node', list |-> list',
                                  rel |-> <<>>, dupd |-> <<>>],
                                 l, v, FALSE)
                      IN /\ a.ret = l
                         /\ a.h.list[l].len = 1
                         /\ a.h.list[l].head = a.h.list[l].tail
                         /\ Forward(a.h.node, a.h.list, l)
                              = <<a.h.list[l].head>>
                         /\ a.h.node[a.h.list[l].head].value = v
      ]_vars

\* A list that held MaxLive nodes, emptied with the release callback
\* installed and two different values released, beside another list.
C14_Witness ==
    /\ last.op = "empty" /\ last.k = MaxLive
    /\ Len(last.rel) = MaxLive /\ last.rel[1] # last.rel[2]
    /\ list[last.l].free
    /\ \E o \in Lists \ {last.l} : list[o].live

\* The lists from whose head node n is reached.
Owners(n) ==
    {l \in Lists : list[l].live /\ n \in Range(Forward(node, list, l))}

\* C15: whatever the sequence of creations, insertions, deletions, rotations,
\* joins of two distinct lists, duplications and emptyings on several lists,
\* every node allocated and not freed is reached from the head of exactly one
\* list, and no freed node is reached from any list.
C15_OneOwner ==
    \A n \in Nodes :
      IF node[n].live THEN Cardinality(Owners(n)) = 1 ELSE Owners(n) = {}

\* A join that handed two nodes over to a list that had two: four nodes, the
\* duplicate's and the source's, in one list beside the emptied other.
C15_Witness ==
    /\ last.op = "join" /\ last.k = 2
    /\ list[last.l].len = 4
    /\ list[last.o].live /\ list[last.o].len = 0

\* C16 as claimed: listIndex starts from the end nearer to the requested
\* position, so it follows at most min(p, n-1-p) links to reach the node at
\* position p (from the head, from 0) of a list of n nodes.
C16_NearerEnd ==
    (last.op = "index" /\ last.ret # NULL) =>
      LET f == Forward(node, list, last.l)
          p == PosOf(f, last.ret) - 1
      IN last.steps <= Min({p, Len(f) - 1 - p})

\* C16: listIndex chooses its end by the sign of the index, not by distance:
\* to reach the node at position p (from the head, from 0) of a list of n
\* nodes it follows p links from the head for a non-negative index and
\* n-1-p links from the tail for a negative one; for an index out of range
\* it follows n links before it returns NULL.
C16_WalkBySign ==
    last.op = "index" =>
      LET f == Forward(node, list, last.l)
          n == Len(f)
      IN IF last.ret = NULL THEN last.steps = n
         ELSE last.steps = IF last.k >= 0 THEN PosOf(f, last.ret) - 1
                           ELSE n - PosOf(f, last.ret)

\* listIndex(list, 2) on a list of three nodes: the tail, two links from the
\* head.
C16_Witness ==
    /\ last.op = "index" /\ last.k = 2
    /\ list[last.l].len = 3
    /\ last.ret = list[last.l].tail
    /\ last.steps = 2

\* How many times v occurs in the sequence s.
Count(s, v) == Cardinality({i \in 1..Len(s) : s[i] = v})

\* C18: with the dup and the release callback both installed, when listDup
\* returns NULL every value the dup callback produced during the call has
\* been passed to the release callback exactly once, the value produced just
\* before a failing node allocation of listAddNodeTail included.
C18_FailedDupReleasesCopies ==
    (/\ last.op = "dup" /\ last.ret = NULL
     /\ list[last.l].dup /\ list[last.l].free) =>
      \A v \in Values : Count(last.rel, v) = Count(last.dupd, v)

\* C17: when the caller stores each value reference in one node at most, no
\* call passes to the release callback a value that a live node of some list
\* still stores, and none passes a value twice or a value that was stored
\* nowhere (released before); also across a shallow listDup (no dup callback,
\* release callback copied), when that listDup fails on a node allocation and
\* when the copy or the source is emptied or released afterwards.
C17_ReleasedValuesAreGone ==
    [][\A i \in 1..Len(last'.rel) :
         /\ last'.rel[i] \notin Stored(node')
         /\ last'.rel[i] \in Stored(node)
         /\ Count(last'.rel, last'.rel[i]) = 1
      ]_vars

\* C19: listJoin(l, l) on a list that is not empty loses no node: after the
\* call every node that was in l is still reached from l->head, l->len is
\* the number of nodes reached, and the next chain does not come back on
\* itself.
C19_SelfJoinKeepsNodes ==
    [][(last'.op = "join" /\ last'.o = last'.l /\ last'.k > 0) =>
         LET l == last'.l
             g == Forward(node', list', l)
         IN /\ Range(Forward(node, list, l)) \subseteq Range(g)
            /\ list'[l].len = Cardinality(Range(g))
            /\ Len(g) = Cardinality(Range(g))
      ]_vars

\* The calls that only read the list, and the calls that seat or move a
\* cursor.
ReadOps == {"next", "rewind", "rewindtail", "search", "index"}
CursorOps == {"next", "rewind", "rewindtail", "getiter", "reliter"}

\* C20: listNext, listRewind, listRewindTail, listSearchKey and listIndex
\* leave the list as it was: head, tail, len, the callbacks, and the prev,
\* next and value of every node.  listNext on one iterator leaves every
\* other iterator as it was.  A listNext that returns NULL leaves the cursor
\* NULL, a listNext on a NULL cursor returns NULL and changes nothing, and
\* no call but listNext and the seating calls moves a cursor: once listNext
\* has returned NULL it returns NULL until the iterator is seated again.
C20_ReadsChangeNothing ==
    [][/\ last'.op \in ReadOps => (node' = node /\ list' = list)
       /\ last'.op = "next" =>
            /\ \A j \in Iters \ {last'.k} : iter'[j] = iter[j]
            /\ last'.ret = NULL => iter'[last'.k].next = NULL
            /\ iter[last'.k].next = NULL =>
                 (last'.ret = NULL /\ iter'[last'.k] = iter[last'.k])
            /\ (last.op = "next" /\ last.k = last'.k /\ last.ret = NULL) =>
                 (last'.ret = NULL /\ iter' = iter)
       /\ last'.op \notin CursorOps => iter' = iter
      ]_vars

\* listNext returned NULL at the end of a whole traversal of MaxLive nodes
\* while the other iterator stood on a node of the list.
C20_Witness ==
    /\ last.op = "next" /\ last.ret = NULL
    /\ Len(yielded[last.k]) = MaxLive + 1
    /\ \E j \in Iters \ {last.k} : iter[j].live /\ iter[j].next # NULL
    /\ \E l \in Lists : list[l].live /\ list[l].match

====
